---- MODULE Spec2Model ----
(***************************************************************************)
(* Session thinking budget: the SessionThinkingState cell and the /think   *)
(* and /budget slash commands that write it through the configuration      *)
(* collaborator.                                                           *)
(*                                                                         *)
(* Strings the user types are sequences of one-character strings, so that  *)
(* trim, toLowerCase, parseInt and Number.prototype.toString are computed  *)
(* character by character.  Message contents are TLA+ strings.             *)
(***************************************************************************)
EXTENDS Integers, Sequences, FiniteSets, TLC

VARIABLES
    config,          \* TRUE iff context.services.config is present
    activeOverride,  \* SessionThinkingState.activeOverride (Null or an integer)
    last,            \* the last invocation: [cmd, sub, args]
    result,          \* what the last invocation returned
    prev,            \* history: activeOverride before the last invocation
    lastSet          \* history: argument of the most recent setOverride / Null after clearOverride

vars == <<config, activeOverride, last, result, prev, lastSet>>

-----------------------------------------------------------------------------
(* Bounds *)

\* longest generated argument string (over Alphabet)
MaxLen == 2

-----------------------------------------------------------------------------
(* Program constants *)

THINKING_BUDGET_LOW == 2048
THINKING_BUDGET_MEDIUM == 8192
THINKING_BUDGET_HIGH == 16384
THINKING_BUDGET_UNLIMITED == -1
THINKING_BUDGET_OFF == 0
DEFAULT_THINKING_MODE == 8192
MAX_BUDGET == 32768

\* JavaScript values the cell and the handlers hold, tagged by type: null
\* (the absent override), undefined (what `config?.get...()` yields when
\* config is missing) and numbers
Null == [t |-> "null", v |-> 0]
Undefined == [t |-> "undefined", v |-> 0]
\* a JavaScript value that is the integer n
Num(n) == [t |-> "number", v |-> n]
isNum(x) == x.t = "number"

-----------------------------------------------------------------------------
(* JavaScript string and number primitives the handlers call *)

Digits == <<"0", "1", "2", "3", "4", "5", "6", "7", "8", "9">>
DigitSet == {Digits[i] : i \in 1..10}
DigitVal(c) == (CHOOSE i \in 1..10 : Digits[i] = c) - 1

UpperChars == <<"A", "B", "C", "D", "E", "F", "G", "H", "I", "J", "K", "L", "M",
                "N", "O", "P", "Q", "R", "S", "T", "U", "V", "W", "X", "Y", "Z">>
LowerChars == <<"a", "b", "c", "d", "e", "f", "g", "h", "i", "j", "k", "l", "m",
                "n", "o", "p", "q", "r", "s", "t", "u", "v", "w", "x", "y", "z">>
WhiteSpace == {" ", "\t", "\n"}

LowerChar(c) ==
    IF \E i \in 1..26 : UpperChars[i] = c
    THEN LowerChars[CHOOSE i \in 1..26 : UpperChars[i] = c]
    ELSE c

\* String.prototype.toLowerCase
toLowerCase(s) == [i \in 1..Len(s) |-> LowerChar(s[i])]

RECURSIVE trimStart(_)
trimStart(s) ==
    IF s # <<>> /\ Head(s) \in WhiteSpace THEN trimStart(Tail(s)) ELSE s

RECURSIVE trimEnd(_)
trimEnd(s) ==
    IF s # <<>> /\ s[Len(s)] \in WhiteSpace
    THEN trimEnd(SubSeq(s, 1, Len(s) - 1))
    ELSE s

\* String.prototype.trim
trim(s) == trimEnd(trimStart(s))

RECURSIVE digitPrefix(_)
digitPrefix(s) ==
    IF s # <<>> /\ Head(s) \in DigitSet
    THEN <<Head(s)>> \o digitPrefix(Tail(s))
    ELSE <<>>

RECURSIVE stripZeros(_)
stripZeros(s) ==
    IF s # <<>> /\ Head(s) = "0" THEN stripZeros(Tail(s)) ELSE s

\* A JavaScript number that parseInt can return: NaN, or a signed integer
\* given by its decimal magnitude without leading zeros (<<>> is zero, and
\* neg with <<>> is -0).
NaN == [nan |-> TRUE, neg |-> FALSE, mag |-> <<>>]

\* parseInt(s, 10): skip leading white space, take an optional sign, then
\* the longest prefix of decimal digits; NaN when there is none.
parseInt(s) ==
    LET s1 == trimStart(s)
        signed == s1 # <<>> /\ Head(s1) \in {"+", "-"}
        neg == signed /\ Head(s1) = "-"
        rest == IF signed THEN Tail(s1) ELSE s1
        ds == digitPrefix(rest)
    IN IF ds = <<>> THEN NaN
       ELSE [nan |-> FALSE, neg |-> neg, mag |-> stripZeros(ds)]

isNaN(num) == num.nan

RECURSIVE magVal(_)
magVal(m) ==
    IF m = <<>> THEN 0 ELSE 10 * magVal(SubSeq(m, 1, Len(m) - 1)) + DigitVal(m[Len(m)])

\* the integer a number of at most 9 digits denotes (-0 and 0 are both 0)
IntVal(num) == IF num.neg THEN 0 - magVal(num.mag) ELSE magVal(num.mag)

\* num < k and num > k for a small integer k; a magnitude of ten digits or
\* more is beyond every k the handlers compare with
Less(num, k) == IF Len(num.mag) > 9 THEN num.neg ELSE IntVal(num) < k
Greater(num, k) == IF Len(num.mag) > 9 THEN ~num.neg ELSE IntVal(num) > k

RECURSIVE natChars(_)
natChars(n) ==
    IF n < 10 THEN <<Digits[n + 1]>> ELSE natChars(n \div 10) \o <<Digits[(n % 10) + 1]>>

\* the decimal numeral of an integer, as the user types it
Numeral(n) == IF n < 0 THEN <<"-">> \o natChars(0 - n) ELSE natChars(n)

isPowerOfTen(m) == m # <<>> /\ m[1] = "1" /\ \A i \in 2..Len(m) : m[i] = "0"

\* Number.prototype.toString(): plain decimal below 10^21 (exact here up to
\* 15 digits, all of which are safe integers), exponent notation from 10^21
\* on (given here for the powers of ten, which are "1e+N").  Numbers of 16
\* to 21 digits and other numbers from 10^21 on are outside the arguments
\* the model feeds.
NumberToString(num) ==
    CASE num.mag = <<>> -> <<"0">>
      [] num.mag # <<>> /\ Len(num.mag) <= 15 ->
            (IF num.neg THEN <<"-">> ELSE <<>>) \o num.mag
      [] Len(num.mag) >= 22 /\ isPowerOfTen(num.mag) ->
            (IF num.neg THEN <<"-">> ELSE <<>>) \o <<"1", "e", "+">> \o natChars(Len(num.mag) - 1)

-----------------------------------------------------------------------------
(* SessionThinkingState *)

\* a falsy budget stored as null (`budget || null`)
setOverride_falsy(budget) == IF budget = Num(0) THEN Null ELSE budget

setOverride(budget) == budget
getActiveOverride(st) == st
clearOverride == Null
\* compared with undefined instead of null
hasOverride_undefined(st) == st # Undefined

hasOverride(st) == st # Null

-----------------------------------------------------------------------------
(* The configuration collaborator, reached by optional chaining *)

\* Config.setSessionThinkingBudget / getSessionThinkingBudget delegate to the
\* session's SessionThinkingState
ConfigSet(st, value) == setOverride(value)
ConfigGet(st) == getActiveOverride(st)

\* the call made without the optional chaining's guard
OptSet_unguarded(cfg, st, value) == ConfigSet(st, value)

\* context.services.config?.setSessionThinkingBudget(value): the new cell
OptSet(cfg, st, value) == IF cfg THEN ConfigSet(st, value) ELSE st
\* context.services.config?.getSessionThinkingBudget()
OptGet(cfg, st) == IF cfg THEN ConfigGet(st) ELSE Undefined

-----------------------------------------------------------------------------
(* thinkCommand.ts *)

createMessage(messageType, content) ==
    [type |-> "message", messageType |-> messageType, content |-> content]

\* the tiers compared with < instead of <=
getBudgetLabel_strict(budget) ==
    IF budget = THINKING_BUDGET_UNLIMITED THEN "UNLIMITED"
    ELSE IF budget = THINKING_BUDGET_OFF THEN "OFF"
    ELSE IF budget < THINKING_BUDGET_LOW THEN "LOW"
    ELSE IF budget < THINKING_BUDGET_MEDIUM THEN "MEDIUM"
    ELSE IF budget < THINKING_BUDGET_HIGH THEN "HIGH"
    ELSE "EXTREME"

getBudgetLabel(budget) ==
    IF budget = THINKING_BUDGET_UNLIMITED THEN "UNLIMITED"
    ELSE IF budget = THINKING_BUDGET_OFF THEN "OFF"
    ELSE IF budget <= THINKING_BUDGET_LOW THEN "LOW"
    ELSE IF budget <= THINKING_BUDGET_MEDIUM THEN "MEDIUM"
    ELSE IF budget <= THINKING_BUDGET_HIGH THEN "HIGH"
    ELSE "EXTREME"

AgentNote ==
    "Note: Agents like CodebaseInvestigator use their own thinking budgets for optimal performance."

\* Each handler is an operator from (config present, cell) to the new cell
\* and the message returned.
Outcome(st, msg) == [override |-> st, msg |-> msg]

thinkOn(cfg, st) ==
    Outcome(OptSet(cfg, st, Num(DEFAULT_THINKING_MODE)),
            createMessage("info",
                "Extended Thinking enabled (MEDIUM: " \o ToString(DEFAULT_THINKING_MODE)
                \o " tokens)\n" \o AgentNote))

thinkOff(cfg, st) ==
    Outcome(OptSet(cfg, st, Num(THINKING_BUDGET_OFF)),
            createMessage("info", "Extended Thinking disabled"))

thinkLow(cfg, st) ==
    Outcome(OptSet(cfg, st, Num(THINKING_BUDGET_LOW)),
            createMessage("info",
                "Extended Thinking set to LOW (" \o ToString(THINKING_BUDGET_LOW)
                \o " tokens)\n" \o AgentNote))

thinkMedium(cfg, st) ==
    Outcome(OptSet(cfg, st, Num(THINKING_BUDGET_MEDIUM)),
            createMessage("info",
                "Extended Thinking set to MEDIUM (" \o ToString(THINKING_BUDGET_MEDIUM)
                \o " tokens)\n" \o AgentNote))

thinkHigh(cfg, st) ==
    Outcome(OptSet(cfg, st, Num(THINKING_BUDGET_HIGH)),
            createMessage("info",
                "Extended Thinking set to HIGH (" \o ToString(THINKING_BUDGET_HIGH)
                \o " tokens)\n" \o AgentNote))

thinkUnlimited(cfg, st) ==
    Outcome(OptSet(cfg, st, Num(THINKING_BUDGET_UNLIMITED)),
            createMessage("info", "Extended Thinking set to UNLIMITED\n" \o AgentNote))

thinkStatus(cfg, st) ==
    LET budget == OptGet(cfg, st)
    IN Outcome(st,
         IF budget = Null \/ budget = Undefined
         THEN createMessage("info",
                  "Extended Thinking: Using model defaults (MEDIUM: 8192 tokens)")
         ELSE IF budget = Num(THINKING_BUDGET_UNLIMITED)
         THEN createMessage("info", "Extended Thinking: UNLIMITED")
         ELSE IF budget = Num(THINKING_BUDGET_OFF)
         THEN createMessage("info", "Extended Thinking: DISABLED")
         ELSE createMessage("info",
                  "Extended Thinking: " \o ToString(budget.v) \o " tokens ("
                  \o getBudgetLabel(budget.v) \o ")"))

LowerBoundError == "Budget must be -1 (unlimited), 0 (disabled), or a positive number"
UpperBoundError == "Budget must be 32768 tokens or less (or -1 for unlimited)"
ThinkUsage == "Usage: /think [on|off|low|medium|high|unlimited|<number>|status]"

\* !isNaN(numericBudget) && trimmedArgs === numericBudget.toString()
thinkIsNumeric(trimmedArgs) ==
    /\ ~isNaN(parseInt(trimmedArgs))
    /\ trimmedArgs = NumberToString(parseInt(trimmedArgs))

\* the lower range check written as < 0
thinkBelowMin_zero(numericBudget) == Less(numericBudget, 0)

thinkBelowMin(numericBudget) == Less(numericBudget, -1)
thinkAboveMax(numericBudget) == Greater(numericBudget, MAX_BUDGET)

\* the toggle without its null / undefined test
toggleTurnsOff_noNull(current) == isNum(current) /\ current.v > THINKING_BUDGET_OFF
\* the toggle comparing with >= instead of >
toggleTurnsOff_ge(current) ==
    current = Null \/ current = Undefined \/ current.v >= THINKING_BUDGET_OFF

\* current === null || current === undefined || current > THINKING_BUDGET_OFF
toggleTurnsOff(current) ==
    current = Null \/ current = Undefined \/ current.v > THINKING_BUDGET_OFF

thinkAction(cfg, st, args) ==
    LET trimmedArgs == toLowerCase(trim(args))
        numericBudget == parseInt(trimmedArgs)
    IN IF thinkIsNumeric(trimmedArgs)
       THEN IF thinkBelowMin(numericBudget)
            THEN Outcome(st, createMessage("error", LowerBoundError))
            ELSE IF thinkAboveMax(numericBudget)
            THEN Outcome(st, createMessage("error", UpperBoundError))
            ELSE LET n == IntVal(numericBudget)
                 IN Outcome(OptSet(cfg, st, Num(n)),
                      IF n = THINKING_BUDGET_UNLIMITED
                      THEN createMessage("info", "Extended Thinking set to UNLIMITED")
                      ELSE IF n = THINKING_BUDGET_OFF
                      THEN createMessage("info", "Extended Thinking disabled")
                      ELSE createMessage("info",
                               "Extended Thinking set to " \o ToString(n) \o " tokens ("
                               \o getBudgetLabel(n) \o ")"))
       ELSE IF trimmedArgs = <<>>
       THEN IF toggleTurnsOff(OptGet(cfg, st))
            THEN Outcome(OptSet(cfg, st, Num(THINKING_BUDGET_OFF)),
                         createMessage("info", "Extended Thinking disabled"))
            ELSE Outcome(OptSet(cfg, st, Num(DEFAULT_THINKING_MODE)),
                         createMessage("info",
                             "Extended Thinking enabled (MEDIUM: "
                             \o ToString(DEFAULT_THINKING_MODE) \o " tokens)"))
       ELSE Outcome(st, createMessage("error", ThinkUsage))

-----------------------------------------------------------------------------
(* budgetCommand.ts *)

KwUnlimited == <<"u", "n", "l", "i", "m", "i", "t", "e", "d">>
KwMax == <<"m", "a", "x">>
KwOff == <<"o", "f", "f">>
KwDisabled == <<"d", "i", "s", "a", "b", "l", "e", "d">>

BudgetUsage ==
    "Budget must be a number, \"unlimited\", \"off\", or \"disabled\".\n"
    \o "Example: /budget 4096\n"
    \o "Use /think for preset levels (low/medium/high)."
StatsHint == "\n\nUse /stats to see token usage for this session."

budgetBelowMin(numericBudget) == Less(numericBudget, -1)
\* the upper range check off by one
budgetAboveMax_offByOne(numericBudget) == Greater(numericBudget, MAX_BUDGET + 1)

budgetAboveMax(numericBudget) == Greater(numericBudget, MAX_BUDGET)

budgetAction(cfg, st, args) ==
    LET trimmedArgs == toLowerCase(trim(args))
        numericBudget == parseInt(trimmedArgs)
    IN IF trimmedArgs = <<>>
       THEN LET current == OptGet(cfg, st)
            IN Outcome(st, createMessage("info",
                 "Thinking Budget: "
                 \o (IF current = Null \/ current = Undefined
                     THEN "Default (" \o ToString(DEFAULT_THINKING_MODE) \o " tokens)"
                     ELSE IF current = Num(THINKING_BUDGET_UNLIMITED) THEN "Unlimited"
                     ELSE IF current = Num(THINKING_BUDGET_OFF) THEN "Disabled (0 tokens)"
                     ELSE ToString(current.v) \o " tokens")
                 \o StatsHint))
       ELSE IF trimmedArgs = KwUnlimited \/ trimmedArgs = KwMax
       THEN Outcome(OptSet(cfg, st, Num(THINKING_BUDGET_UNLIMITED)),
                    createMessage("info",
                        "Thinking budget set to unlimited\n"
                        \o "Note: This may increase latency and API costs."))
       ELSE IF trimmedArgs = KwOff \/ trimmedArgs = KwDisabled
       THEN Outcome(OptSet(cfg, st, Num(THINKING_BUDGET_OFF)),
                    createMessage("info", "Thinking budget disabled"))
       ELSE IF isNaN(numericBudget)
       THEN Outcome(st, createMessage("error", BudgetUsage))
       ELSE IF budgetBelowMin(numericBudget)
       THEN Outcome(st, createMessage("error", LowerBoundError))
       ELSE IF budgetAboveMax(numericBudget)
       THEN Outcome(st, createMessage("error", UpperBoundError))
       ELSE LET n == IntVal(numericBudget)
                label == IF n = THINKING_BUDGET_UNLIMITED THEN "unlimited"
                         ELSE IF n = THINKING_BUDGET_OFF THEN "disabled"
                         ELSE ToString(n) \o " tokens"
            IN Outcome(OptSet(cfg, st, Num(n)),
                       createMessage("info", "Thinking budget set to " \o label))

-----------------------------------------------------------------------------
(* Arguments the user types *)

Alphabet == {"-", "1", "a", " "}
GenArgs == UNION {[1..n -> Alphabet] : n \in 0..MaxLen}

\* integers typed as their decimal numeral: the range ends, the label
\* thresholds and their neighbours
TestInts == {-32769, -2, -1, 0, 1, 10, 11, 2048, 2049, 4096, 8192, 8193,
             16384, 16385, 32768, 32769, 99999}

\* 10^21, the least number that toString prints in exponent notation
TenTo21 == <<"1">> \o [i \in 1..21 |-> "0"]

NamedArgs ==
    {Numeral(n) : n \in TestInts}
    \cup {TenTo21, <<"-">> \o TenTo21}
    \cup {<<"a", "b", "c">>, <<"1", "2", "a", "b", "c">>, <<"1", ".", "5">>,
          <<"4", "0", "9", "6", " ", "t", "o", "k", "e", "n", "s">>,
          <<"+", "5">>, <<"0", "0", "7">>, <<"-", "0">>, <<" ", "4", "0", "9", "6", " ">>,
          <<"o", "n">>, <<"M", "A", "X">>, <<" ", "O", "f", "f">>,
          KwUnlimited, KwMax, KwOff, KwDisabled}

Args == GenArgs \cup NamedArgs

\* values handed to SessionThinkingState directly (no validation there)
CellValues == {Null} \cup {Num(n) : n \in {-5, -1, 0, 1, 8192, 32768, 32769, 99999}}

-----------------------------------------------------------------------------
(* The session: one command invocation per step *)

NoResult == [type |-> "none", messageType |-> "none", content |-> ""]

Init ==
    /\ config \in BOOLEAN
    /\ activeOverride = Null
    /\ last = [cmd |-> "none", sub |-> "", args |-> <<>>]
    /\ result = NoResult
    /\ prev = Null
    /\ lastSet = Null

Invoke(cmd, sub, args, out) ==
    /\ activeOverride' = out.override
    /\ result' = out.msg
    /\ last' = [cmd |-> cmd, sub |-> sub, args |-> args]
    /\ prev' = activeOverride
    /\ UNCHANGED <<config, lastSet>>

ThinkOn == Invoke("think", "on", <<>>, thinkOn(config, activeOverride))
ThinkOff == Invoke("think", "off", <<>>, thinkOff(config, activeOverride))
ThinkLow == Invoke("think", "low", <<>>, thinkLow(config, activeOverride))
ThinkMedium == Invoke("think", "medium", <<>>, thinkMedium(config, activeOverride))
ThinkHigh == Invoke("think", "high", <<>>, thinkHigh(config, activeOverride))
ThinkUnlimited == Invoke("think", "unlimited", <<>>, thinkUnlimited(config, activeOverride))
ThinkStatus == Invoke("think", "status", <<>>, thinkStatus(config, activeOverride))
ThinkDefault ==
    \E args \in Args :
        Invoke("think", "default", args, thinkAction(config, activeOverride, args))
Budget ==
    \E args \in Args :
        Invoke("budget", "default", args, budgetAction(config, activeOverride, args))

Next ==
    \/ ThinkOn
    \/ ThinkOff
    \/ ThinkLow
    \/ ThinkMedium
    \/ ThinkHigh
    \/ ThinkUnlimited
    \/ ThinkStatus
    \/ ThinkDefault
    \/ Budget

Spec == Init /\ [][Next]_vars

-----------------------------------------------------------------------------
(* SessionThinkingState driven directly *)

Call(op, arg, newCell, ret) ==
    /\ activeOverride' = newCell
    /\ result' = [type |-> "return", value |-> ret]
    /\ last' = [cmd |-> "state", sub |-> op, args |-> arg]
    /\ prev' = activeOverride
    /\ UNCHANGED config

SetOverrideCall ==
    \E v \in CellValues :
        /\ Call("setOverride", v, setOverride(v), Undefined)
        /\ lastSet' = v
ClearOverrideCall ==
    /\ Call("clearOverride", Null, clearOverride, Undefined)
    /\ lastSet' = Null
GetActiveOverrideCall ==
    /\ Call("getActiveOverride", Null, activeOverride, getActiveOverride(activeOverride))
    /\ UNCHANGED lastSet
HasOverrideCall ==
    /\ Call("hasOverride", Null, activeOverride, hasOverride(activeOverride))
    /\ UNCHANGED lastSet

NextState ==
    \/ SetOverrideCall
    \/ ClearOverrideCall
    \/ GetActiveOverrideCall
    \/ HasOverrideCall

SpecState == Init /\ [][NextState]_vars

-----------------------------------------------------------------------------
(* Vocabulary of the properties *)

IsThinkDefault == last.cmd = "think" /\ last.sub = "default"
IsBudget == last.cmd = "budget"
IsFreeForm == IsThinkDefault \/ IsBudget
TrimLower(args) == toLowerCase(trim(args))
\* /think with no (or only blank) arguments
IsToggle == IsThinkDefault /\ trim(last.args) = <<>>
IsThinkStatus == last.cmd = "think" /\ last.sub = "status"
IsBudgetStatus == IsBudget /\ trim(last.args) = <<>>

InRangeInts == {n \in TestInts : -1 <= n /\ n <= MAX_BUDGET}
TooLowArgs == {Numeral(n) : n \in {m \in TestInts : m < -1}} \cup {<<"-">> \o TenTo21}
TooHighArgs == {Numeral(n) : n \in {m \in TestInts : m > MAX_BUDGET}} \cup {TenTo21}

IsDigits(s) == s # <<>> /\ \A i \in 1..Len(s) : s[i] \in DigitSet
IsIntegerNumeral(s) ==
    \/ IsDigits(s)
    \/ s # <<>> /\ Head(s) \in {"+", "-"} /\ IsDigits(Tail(s))
Keywords == {KwUnlimited, KwMax, KwOff, KwDisabled}
Unparseable(t) == t # <<>> /\ t \notin Keywords /\ ~IsIntegerNumeral(t)

TierOf(n) ==
    IF n <= 2048 THEN "LOW"
    ELSE IF n <= 8192 THEN "MEDIUM"
    ELSE IF n <= 16384 THEN "HIGH"
    ELSE "EXTREME"

-----------------------------------------------------------------------------
(* Properties *)

\* C1: after any sequence of /think and /budget invocations the stored
\* budget is absent, -1, 0 or a positive integer of at most 32768.
C1_StoredInRange ==
    \/ activeOverride = Null
    \/ /\ isNum(activeOverride)
       /\ activeOverride.v >= -1
       /\ activeOverride.v <= 32768

\* the largest budget is stored and a later attempt to store 32769 left it
C1_Witness ==
    /\ IsFreeForm
    /\ last.args = Numeral(32769)
    /\ prev = Num(32768)
    /\ activeOverride = Num(32768)

\* C2: an integer argument below -1 (above 32768) makes the /think default
\* action and /budget return the lower-bound (upper-bound) error and leave
\* the stored value as it was.
C2_OutOfRangeRejected ==
    /\ (IsFreeForm /\ last.args \in TooLowArgs) =>
          /\ result.messageType = "error"
          /\ result.content = LowerBoundError
          /\ activeOverride = prev
    /\ (IsFreeForm /\ last.args \in TooHighArgs) =>
          /\ result.messageType = "error"
          /\ result.content = UpperBoundError
          /\ activeOverride = prev

\* C3: with config present, an integer argument n in [-1, 32768] makes the
\* /think default action and /budget return an info message, and a
\* following getSessionThinkingBudget returns n.
C3_SetThenRead ==
    \A n \in InRangeInts :
        (config /\ IsFreeForm /\ last.args = Numeral(n)) =>
            /\ result.messageType = "info"
            /\ OptGet(config, activeOverride) = Num(n)

\* 32768 was typed over a different stored value
C3_Witness ==
    /\ config
    /\ IsFreeForm
    /\ last.args = Numeral(32768)
    /\ prev = Num(0)
    /\ activeOverride = Num(32768)

\* C4 (as claimed): /think with no arguments from an absent override sets
\* the medium default.
C4_ToggleFromAbsentSetsDefault ==
    (config /\ IsToggle /\ prev = Null) => activeOverride = Num(DEFAULT_THINKING_MODE)

\* C4 (amended): with config present, /think with no arguments from an
\* absent override sets 0 and reports "disabled".
C4_ToggleFromAbsentDisables ==
    (config /\ IsToggle /\ prev = Null) =>
        /\ activeOverride = Num(0)
        /\ activeOverride # Num(DEFAULT_THINKING_MODE)
        /\ result = createMessage("info", "Extended Thinking disabled")

C4_Witness == config /\ IsToggle /\ prev = Null /\ activeOverride # Null

C6_UnparseableRejected ==
    (config /\ IsFreeForm /\ Unparseable(TrimLower(last.args))) =>
        /\ result.messageType = "error"
        /\ activeOverride = prev

\* C7: without config no invocation writes a value, the set forms still
\* return their info confirmation, and an error is returned only for an
\* argument that is rejected with config present too.
C7_MissingConfigNoOp ==
    (~config) =>
        /\ activeOverride = Null
        /\ (last.cmd = "think" /\ last.sub # "default") => result.messageType = "info"
        /\ (IsFreeForm /\ \E n \in InRangeInts : last.args = Numeral(n)) =>
               result.messageType = "info"
        /\ (IsBudget /\ TrimLower(last.args) \in Keywords) => result.messageType = "info"
        /\ (IsFreeForm /\ trim(last.args) = <<>>) => result.messageType = "info"
        /\ result.messageType = "error" =>
               /\ IsFreeForm
               /\ TrimLower(last.args) # <<>>
               /\ TrimLower(last.args) \notin {Numeral(n) : n \in InRangeInts}
               /\ IsBudget => TrimLower(last.args) \notin Keywords

\* a set form confirmed although nothing was written
C7_Witness ==
    /\ ~config
    /\ IsFreeForm
    /\ last.args = Numeral(4096)
    /\ result.messageType = "info"
    /\ activeOverride = Null

\* C8: the status forms leave the stored value and report its category:
\* absent -> the default description, -1 -> unlimited, 0 -> disabled,
\* n > 0 -> "n tokens", with the /think tier LOW up to 2048, MEDIUM up to
\* 8192, HIGH up to 16384 and EXTREME above.
C8_StatusReports ==
    /\ IsThinkStatus =>
          /\ activeOverride = prev
          /\ result.messageType = "info"
          /\ result.content =
                IF activeOverride = Null
                THEN "Extended Thinking: Using model defaults (MEDIUM: 8192 tokens)"
                ELSE IF activeOverride.v = -1 THEN "Extended Thinking: UNLIMITED"
                ELSE IF activeOverride.v = 0 THEN "Extended Thinking: DISABLED"
                ELSE "Extended Thinking: " \o ToString(activeOverride.v) \o " tokens ("
                     \o TierOf(activeOverride.v) \o ")"
    /\ IsBudgetStatus =>
          /\ activeOverride = prev
          /\ result.messageType = "info"
          /\ result.content =
                "Thinking Budget: "
                \o (IF activeOverride = Null
                    THEN "Default (" \o ToString(DEFAULT_THINKING_MODE) \o " tokens)"
                    ELSE IF activeOverride.v = -1 THEN "Unlimited"
                    ELSE IF activeOverride.v = 0 THEN "Disabled (0 tokens)"
                    ELSE ToString(activeOverride.v) \o " tokens")
                \o StatsHint

\* the status of a budget exactly at the low threshold
C8_Witness ==
    /\ IsThinkStatus
    /\ activeOverride = Num(2048)
    /\ result.content = "Extended Thinking: 2048 tokens (LOW)"

\* C9: the cell holds the argument of the most recent setOverride, or null
\* after clearOverride or at the start; getActiveOverride returns it,
\* hasOverride returns whether it is not null, and neither changes it.
C9_CellRegister ==
    /\ activeOverride = lastSet
    /\ (last.cmd = "state" /\ last.sub = "getActiveOverride") =>
          /\ result.value = lastSet
          /\ activeOverride = prev
    /\ (last.cmd = "state" /\ last.sub = "hasOverride") =>
          /\ result.value = (lastSet # Null)
          /\ activeOverride = prev

\* hasOverride answering FALSE while the cell is absent
C9_Witness ==
    /\ last.cmd = "state"
    /\ last.sub = "hasOverride"
    /\ lastSet = Null
    /\ result.value = FALSE

\* C10: no invocation of /think or /budget writes an absent value: once
\* the override is present it stays present.
C10_NeverAbsentAgain == [][activeOverride # Null => activeOverride' # Null]_vars

\* a second toggle over a present value
C10_Witness ==
    /\ IsToggle
    /\ prev = Num(0)
    /\ activeOverride = Num(DEFAULT_THINKING_MODE)

====
